---- MODULE Spec2Model ----
(***************************************************************************)
(* Driver mobile app: the trip-details screen (TripDetailsScreen), its     *)
(* trip-phase transitions against the hosted trips table, the realtime     *)
(* subscription and re-fetch that feed the local view, and the GPS         *)
(* tracking / location disclosure hooks the screen uses.                   *)
(*                                                                         *)
(* One trip T1 is modelled, opened by the signed-in driver D1.  Every      *)
(* awaited call of the source is split at its await: the request is in     *)
(* flight (ops, fetches, notifs, ...) until a later step delivers the      *)
(* response and runs the continuation.                                     *)
(***************************************************************************)
EXTENDS Integers, Sequences, FiniteSets, Bags, TLC

\* ------------------------------------------------------------------ bounds
MaxClock == 7      \* the clock stops at MaxClock: timestamps are 1 .. MaxClock-1
MaxMounts == 2     \* times the trip-details screen is opened
MaxEvents == 1     \* realtime events queued for the screen
MaxFetches == 1    \* fetchTripDetails calls in flight
MaxNotifs == 1     \* dispatcher notification calls in flight
MaxPending == 1    \* pending calls of each other kind (OS requests, inserts)

\* ------------------------------------------------------------------ values
NULL == "null"
Unset == 0         \* a timestamp column that was never written
D1 == "D1"         \* user.id of the signed-in driver
D2 == "D2"         \* another driver

\* trip_phase order of the lifecycle; an unset phase is shown as 'waiting'
PhaseRank(p) ==
  CASE p = "en_route_to_pickup" -> 1
    [] p = "arrived_at_pickup" -> 2
    [] p = "en_route_to_destination" -> 3
    [] p = "completed" -> 4
    [] OTHER -> 0

\* the columns of the trips row the app reads or writes
TripRow(st, drv, asg, das, ph, pat, rst, cat) ==
  [status |-> st, driver_id |-> drv, assigned_driver_id |-> asg,
   driver_acceptance_status |-> das, trip_phase |-> ph,
   pickup_arrival_time |-> pat, ride_start_time |-> rst, completed_at |-> cat]

\* useState(null): no trip loaded
NoTrip == TripRow(NULL, NULL, NULL, NULL, NULL, Unset, Unset, Unset)

\* useState(null) of the hook's location: no fix yet
\* JavaScript values of a position's fields: undefined, null, a number, or
\* something else that is not a number
Undefined == [t |-> "undefined"]
JsNull == [t |-> "null"]
Num(n) == [t |-> "number", v |-> n]
NotANumber == [t |-> "string"]

\* a position's coords object
Coords(lat, lng, hd, sp) ==
  [t |-> "object", latitude |-> lat, longitude |-> lng, heading |-> hd,
   speed |-> sp]

\* a position: timestamp is its whole milliseconds, frac what is left of the
\* timestamp below one millisecond, in ticks
TicksPerMs == 2
Position(ts, f, c) == [timestamp |-> ts, frac |-> f, coords |-> c]

\* an ordinary fix
Fix == Coords(Num(41), Num(83), Num(90), Num(12))

\* useState(null) of location
NoLocation == Position(0, 0, Undefined)

VARIABLES
  \* ---- the backend and the device
  store,          \* the trips row of T1 in the database
  driver_location, \* the rows of driver_location for T1 (a bag)
  storageFlag,    \* AsyncStorage holds DISCLOSURE_ACCEPTED_KEY = 'true'
  osFg, osBg,     \* the OS's foreground / background permission status
  watches,        \* ids of the position watches registered with the OS
  channels,       \* screen instances whose realtime channel is subscribed
  \* ---- TripDetailsScreen
  mounted,        \* the screen is mounted
  mounts,         \* how many times the screen was opened (instance id)
  trip,           \* useState trip (NoTrip when null)
  tripPhase,      \* useState tripPhase
  loading,        \* useState loading
  actionLoading,  \* useState actionLoading (the busy flag)
  pickupCoords,   \* useState pickupCoords: "none" | "pending" | "set"
  destinationCoords, \* useState destinationCoords, likewise
  showDisclosureModal, \* useState showDisclosureModal
  \* ---- useGPSTracking
  location,       \* useState location (NoLocation when null)
  hasForegroundPermission,
  hasBackgroundPermission,
  needsDisclosure,
  locationSubscription, \* useRef: 0 when null, else the id of a watch
  \* ---- useLocationDisclosure
  hasAcceptedDisclosure,
  disclosureLoading,    \* isLoading
  \* ---- calls in flight
  ops,            \* transition writes in flight
  fetches,        \* fetchTripDetails calls in flight (a bag)
  events,         \* realtime UPDATE events not yet delivered to the screen
  notifs,         \* notifyDispatcher calls in flight (a bag)
  permInit,       \* where initializePermissions is: its pending await
  bgRequests,     \* Location.requestBackgroundPermissionsAsync calls pending
  acceptCalls,    \* handleDisclosureAccept calls awaiting acceptDisclosure
  watchReqs,      \* Location.watchPositionAsync calls pending
  inserts,        \* driver_location inserts in flight (a bag of samples)
  \* ---- observation
  now,            \* the clock read by new Date() and by the GPS provider
  alert,          \* the last Alert.alert shown (its title; 'Error' with error.message)
  consoleLog,     \* last console.error / console.warn message
  bgCalls,        \* for each OS background request made: the state it was made in
  \* ---- the notifications table
  notifications,  \* rows the trigger on trips inserted (a bag)
  \* ---- shifts: the tables, ShiftProvider, ClockScreen
  driver_shifts,     \* the driver's rows: [id, clock_in, clock_out]
  vehicle_checkoffs, \* the driver's rows: their checkoff_date
  today,             \* the date new Date() gives
  currentShift,      \* useState currentShift: the row's id, 0 when null
  todayInspection,   \* useState todayInspection: a checkoff_date, 0 when null
  shiftLoading,      \* useState loading of ShiftProvider
  processing,        \* useState processing of ClockScreen
  inspProcessing,    \* useState processing of VehicleInspectionScreen
  shiftCalls,        \* calls of the shift context in flight
  clockAlert,        \* the last Alert.alert of ClockScreen
  \* ---- useNotifications
  userId,                   \* the hook's argument (NULL when logged out)
  notificationSubscription, \* useRef: 0 when null, else the id of a channel
  rtChannels,               \* the notification channels that exist
  reconnectTimers           \* setTimeout(setupNotificationMonitoring) pending

backendVars == <<store, driver_location, storageFlag, osFg, osBg, watches,
                 channels>>
screenVars == <<mounted, mounts, channels, trip, tripPhase, loading, actionLoading,
                pickupCoords, destinationCoords, showDisclosureModal>>
hookVars == <<location, hasForegroundPermission, hasBackgroundPermission,
              needsDisclosure, locationSubscription, hasAcceptedDisclosure,
              disclosureLoading>>
flightVars == <<ops, fetches, events, notifs, permInit, bgRequests, acceptCalls,
                watchReqs, inserts>>
obsVars == <<now, alert, consoleLog, bgCalls>>
tripVars == <<backendVars, screenVars, hookVars, flightVars, obsVars>>
shiftVars == <<driver_shifts, vehicle_checkoffs, today, currentShift,
               todayInspection, shiftLoading, processing, inspProcessing,
               shiftCalls, clockAlert>>
notifyVars == <<userId, notificationSubscription, rtChannels, reconnectTimers>>
restVars == <<shiftVars, notifyVars>>
sideVars == <<notifications, restVars>>
vars == <<tripVars, sideVars>>

\* ------------------------------------------------------------ render values
\* const isTracking = trip?.status === 'in_progress' && trip?.driver_id === user?.id
IsTrackingOf(t) == t.status = "in_progress" /\ t.driver_id = D1

isTracking == IsTrackingOf(trip)

\* a screen that offers Accept to the assigned driver whatever the trip holds
canAcceptAssigned == trip.assigned_driver_id = D1

canAccept ==
  /\ trip.assigned_driver_id = D1
  /\ trip.driver_id = NULL
  /\ (trip.driver_acceptance_status = "assigned_waiting"
      \/ trip.driver_acceptance_status = NULL)

canStart ==
  /\ trip.driver_id = D1
  /\ (trip.driver_acceptance_status = "accepted"
      \/ (trip.driver_acceptance_status = NULL /\ trip.status = "upcoming"))
  /\ trip.status # "in_progress"

isInProgress == trip.status = "in_progress" /\ trip.driver_id = D1

currentTarget ==
  IF tripPhase = "en_route_to_destination" THEN destinationCoords = "set"
                                           ELSE pickupCoords = "set"

\* the screen shows the trip (neither the spinner nor 'Trip not found')
Shown == mounted /\ ~loading /\ trip # NoTrip

\* {isInProgress && location && currentTarget ? <active view> : <details view>}
ActiveView == Shown /\ isInProgress /\ location # NoLocation /\ currentTarget

DetailsView == Shown /\ ~ActiveView

\* ------------------------------------------------------------- trips table
\* an accept that also starts the trip
ApplyUpdateAcceptStarts(row, kind, ts) ==
  CASE kind = "accept" ->
         [row EXCEPT !.driver_id = D1, !.driver_acceptance_status = "accepted",
                     !.status = "in_progress"]
    [] kind = "start" ->
         [row EXCEPT !.status = "in_progress",
                     !.driver_acceptance_status = "started",
                     !.trip_phase = "en_route_to_pickup"]
    [] kind = "arrived" ->
         [row EXCEPT !.trip_phase = "arrived_at_pickup",
                     !.pickup_arrival_time = ts]
    [] kind = "ride" ->
         [row EXCEPT !.trip_phase = "en_route_to_destination",
                     !.ride_start_time = ts]
    [] kind = "complete" ->
         [row EXCEPT !.status = "completed",
                     !.driver_acceptance_status = "completed",
                     !.trip_phase = "completed",
                     !.completed_at = ts]

\* what supabase.from('trips').update({...}).eq('id', tripId) writes for each
\* transition; ts is the value of new Date() read when the call was made
ApplyUpdate(row, kind, ts) ==
  CASE kind = "accept" ->
         [row EXCEPT !.driver_id = D1, !.driver_acceptance_status = "accepted"]
    [] kind = "start" ->
         [row EXCEPT !.status = "in_progress",
                     !.driver_acceptance_status = "started",
                     !.trip_phase = "en_route_to_pickup"]
    [] kind = "arrived" ->
         [row EXCEPT !.trip_phase = "arrived_at_pickup",
                     !.pickup_arrival_time = ts]
    [] kind = "ride" ->
         [row EXCEPT !.trip_phase = "en_route_to_destination",
                     !.ride_start_time = ts]
    [] kind = "complete" ->
         [row EXCEPT !.status = "completed",
                     !.driver_acceptance_status = "completed",
                     !.trip_phase = "completed",
                     !.completed_at = ts]

\* the action name each transition passes to notifyDispatcher
NotifyAction(kind) ==
  CASE kind = "accept" -> "driver_accepted"
    [] kind = "start" -> "trip_started"
    [] kind = "arrived" -> "arrived_at_pickup"
    [] kind = "ride" -> "ride_started"
    [] kind = "complete" -> "trip_completed"

\* the title of the success dialog of each transition
SuccessAlert(kind) ==
  CASE kind = "accept" -> "Success"
    [] kind = "start" -> "Success"
    [] kind = "arrived" -> "Arrived!"
    [] kind = "ride" -> "Ride Started!"
    [] kind = "complete" -> "Trip Completed!"

\* setTripPhase(...) of the success path of each transition
PhaseAfter(kind, phase) ==
  CASE kind = "start" -> "en_route_to_pickup"
    [] kind = "arrived" -> "arrived_at_pickup"
    [] kind = "ride" -> "en_route_to_destination"
    [] OTHER -> phase

\* what the cleanup of the mount effect leaves of the subscribed channels:
\* a cleanup that does not unsubscribe
\* ---- the trigger on trips (notify_driver_trip_events)
\* SQL's comparisons: a comparison with NULL is unknown, and IF takes its
\* branch only when the condition is true
SqlNe(a, b) == IF a = NULL \/ b = NULL THEN "unknown"
               ELSE IF a # b THEN "true" ELSE "false"
SqlEq(a, b) == IF a = NULL \/ b = NULL THEN "unknown"
               ELSE IF a = b THEN "true" ELSE "false"
SqlAnd(x, y) == IF x = "false" \/ y = "false" THEN "false"
                ELSE IF x = "unknown" \/ y = "unknown" THEN "unknown" ELSE "true"

\* profiles with role = 'dispatcher', and T1's user_id (it has no facility)
Dispatchers == {"P1", "P2"}
Client == "U1"

Notification(user, type) == [user_id |-> user, notification_type |-> type]

\* SELECT ... WHERE role = 'dispatcher', then one INSERT for each
ToDispatchers(type) == SetToBag({Notification(d, type) : d \in Dispatchers})

\* OLD.x != v AND NEW.x = v, which the IFs of scenarios 2 to 5 have
ChangedTo(old, new, v) == SqlAnd(SqlNe(old, v), SqlEq(new, v)) = "true"

\* the rows the trigger inserts for an UPDATE of T1 from OLD to NEW
notify_driver_trip_events(Old, New) ==
  (IF Old.driver_id = NULL /\ New.driver_id # NULL
     THEN SetToBag({Notification(New.driver_id, "trip_assigned")}) ELSE EmptyBag)
  (+)
  (IF ChangedTo(Old.driver_acceptance_status, New.driver_acceptance_status,
                "accepted")
     THEN ToDispatchers("driver_accepted")
            (+) SetToBag({Notification(Client, "driver_accepted")})
     ELSE EmptyBag)
  (+)
  (IF ChangedTo(Old.status, New.status, "in_progress")
     THEN ToDispatchers("trip_started") ELSE EmptyBag)
  (+)
  (IF ChangedTo(Old.status, New.status, "completed")
     THEN ToDispatchers("trip_completed")
            (+) (IF New.driver_id # NULL
                   THEN SetToBag({Notification(New.driver_id, "trip_completed")})
                   ELSE EmptyBag)
     ELSE EmptyBag)
  (+)
  (IF ChangedTo(Old.driver_acceptance_status, New.driver_acceptance_status,
                "rejected")
     THEN ToDispatchers("driver_rejected") ELSE EmptyBag)

\* AFTER UPDATE ON trips FOR EACH ROW
AfterUpdate(Old, New) == notifications (+) notify_driver_trip_events(Old, New)

UnsubscribeSkipped(chs, inst) == chs

\* return () => { subscription.unsubscribe() }
Unsubscribe(chs, inst) == chs \ {inst}

\* supabase.channel(`trip_${tripId}`).on(...).subscribe() of a mounting screen
Subscribe(chs, inst) == chs \cup {inst}

\* a subscribed channel of the mounted screen receives every committed UPDATE
Publish(row) == IF mounted /\ mounts \in channels THEN Append(events, row)
                                                  ELSE events

CanPublish == mounted => Len(events) < MaxEvents

\* a fetchTripDetails call whose select has not reached the database yet
NewFetch == [stage |-> "sent", snap |-> NoTrip]

\* --------------------------------------------------------------- the hooks
\* requestBackgroundPermission up to its await: without the disclosure it sets
\* needsDisclosure and returns; acc is the hasAcceptedDisclosure its closure holds
RequestBackgroundPermission(acc) == IF ~acc THEN "disclose" ELSE "os"

\* a background effect that does not wait for the foreground permission
BackgroundPermissionEffectNoForeground(trk, fg, bg, acc) ==
  IF trk /\ ~bg
    THEN IF acc THEN RequestBackgroundPermission(acc) ELSE "disclose"
    ELSE "none"

\* the hook as first written asked the OS as soon as tracking began
BackgroundPermissionEffectLegacy(trk, fg, bg, acc) ==
  IF trk /\ fg /\ ~bg THEN "os" ELSE "none"

\* useEffect 'Handle background permission when tracking starts': what a run
\* of it does, given the values of its render
BackgroundPermissionEffect(trk, fg, bg, acc) ==
  IF trk /\ fg /\ ~bg
    THEN IF acc THEN RequestBackgroundPermission(acc) ELSE "disclose"
    ELSE "none"

\* useEffect 'Show disclosure modal when needed': it calls setShowDisclosureModal(true)
DisclosureModalEffect(needs, acc, dl) == needs /\ ~acc /\ ~dl

\* the guard of the 'Start tracking' effect
TrackingEffectOn(fg, trk) == fg /\ trk

\* the guard of the 'Send location updates' effect
SendEffectUntracked(loc, trk) == loc # NoLocation

SendEffectOn(loc, trk) == loc # NoLocation /\ trk

\* sendLocationUpdate's validation of the sample
ValidSample(loc) ==
  ~ \/ loc.coords.t \in {"undefined", "null"}
    \/ loc.coords.latitude.t # "number"
    \/ loc.coords.longitude.t # "number"

\* the values held by React state at a render
Cur ==
  [trip |-> trip, loc |-> location, fg |-> hasForegroundPermission,
   bg |-> hasBackgroundPermission, needs |-> needsDisclosure,
   acc |-> hasAcceptedDisclosure, dl |-> disclosureLoading,
   modal |-> showDisclosureModal, log |-> consoleLog, direct |-> "none",
   bgDone |-> EmptyBag]

renderVars == <<trip, location, hasForegroundPermission, hasBackgroundPermission,
                needsDisclosure, hasAcceptedDisclosure, disclosureLoading,
                showDisclosureModal, locationSubscription, watches, watchReqs,
                bgRequests, bgCalls, inserts, consoleLog>>

\* A handler has set state to n (n.direct: what a direct call of
\* requestBackgroundPermission by the handler did; n.bgDone: the background
\* request whose answer the handler is).  The component re-renders
\* and every effect whose dependencies changed runs, before anything else
\* happens: cleanup of the previous run first, then the body.
Rerender(n) ==
  LET trk0 == isTracking
      trk1 == IsTrackingOf(n.trip)
      \* background permission effect
      bgRuns == <<trk1, n.fg, n.bg, n.acc>>
                  # <<trk0, hasForegroundPermission, hasBackgroundPermission,
                      hasAcceptedDisclosure>>
      bgDoes == IF bgRuns THEN BackgroundPermissionEffect(trk1, n.fg, n.bg, n.acc)
                          ELSE "none"
      osCalls == (IF bgDoes = "os" THEN 1 ELSE 0) + (IF n.direct = "os" THEN 1 ELSE 0)
      needs1 == n.needs \/ bgDoes = "disclose" \/ n.direct = "disclose"
      \* disclosure modal effect
      modalRuns == <<needs1, n.acc, n.dl>>
                     # <<needsDisclosure, hasAcceptedDisclosure, disclosureLoading>>
      modal1 == n.modal \/ (modalRuns /\ DisclosureModalEffect(needs1, n.acc, n.dl))
      \* tracking effect
      trkRuns == <<n.fg, trk1>> # <<hasForegroundPermission, trk0>>
      cleans == trkRuns /\ TrackingEffectOn(hasForegroundPermission, trk0)
      starts == trkRuns /\ TrackingEffectOn(n.fg, trk1)
      drops == (cleans \/ starts) /\ locationSubscription # 0
      \* send effect
      sendRuns == <<n.loc, trk1>> # <<location, trk0>>
      sends == sendRuns /\ SendEffectOn(n.loc, trk1)
  IN  /\ trip' = n.trip
      /\ location' = n.loc
      /\ hasForegroundPermission' = n.fg
      /\ hasBackgroundPermission' = n.bg
      /\ hasAcceptedDisclosure' = n.acc
      /\ disclosureLoading' = n.dl
      /\ needsDisclosure' = needs1
      /\ showDisclosureModal' = modal1
      /\ IF osCalls > 0
           THEN /\ BagCardinality(bgRequests (-) n.bgDone) + osCalls <= MaxPending
                /\ bgRequests' = (bgRequests (-) n.bgDone)
                                   (+) [i \in {mounts} |-> osCalls]
                /\ bgCalls' = bgCalls \cup {[accepted |-> n.acc, fg |-> n.fg]}
           ELSE /\ bgRequests' = bgRequests (-) n.bgDone
                /\ bgCalls' = bgCalls
      /\ locationSubscription' = IF drops THEN 0 ELSE locationSubscription
      /\ watches' = IF drops
                      THEN {w \in watches : w.id # locationSubscription}
                      ELSE watches
      /\ IF starts
           THEN /\ BagCardinality(watchReqs) < MaxPending
                /\ watchReqs' = watchReqs (+) SetToBag({mounts})
           ELSE watchReqs' = watchReqs
      /\ IF sends /\ ValidSample(n.loc)
           THEN /\ BagCardinality(inserts) < MaxPending
                /\ inserts' = inserts (+) SetToBag({n.loc})
           ELSE inserts' = inserts
      /\ consoleLog' = IF sends /\ ~ValidSample(n.loc) THEN "invalid_location"
                                                       ELSE n.log

renderVarsNoLog == <<trip, location, hasForegroundPermission,
                     hasBackgroundPermission, needsDisclosure,
                     hasAcceptedDisclosure, disclosureLoading,
                     showDisclosureModal, locationSubscription, watches,
                     watchReqs, bgRequests, bgCalls, inserts>>
renderVarsNoBg == <<trip, location, hasForegroundPermission,
                    hasBackgroundPermission, needsDisclosure,
                    hasAcceptedDisclosure, disclosureLoading,
                    showDisclosureModal, locationSubscription, watches,
                    watchReqs, inserts>>
gpsRest == <<driver_location, storageFlag, osFg, osBg, permInit, acceptCalls>>

\* ------------------------------------------------------------ screen state
\* Unmounting: the component and hook state is gone (shown here as the initial
\* values), the tracking effect's cleanup removes the watch the ref holds, the
\* channel is unsubscribed, and the responses of this instance's reads no
\* longer set state.  Writes and OS calls in flight stay in flight.
Unmounted ==
  LET drops == TrackingEffectOn(hasForegroundPermission, isTracking)
                 /\ locationSubscription # 0
  IN  /\ mounted' = FALSE
      /\ trip' = NoTrip
      /\ tripPhase' = "waiting"
      /\ loading' = TRUE
      /\ actionLoading' = FALSE
      /\ pickupCoords' = "none"
      /\ destinationCoords' = "none"
      /\ showDisclosureModal' = FALSE
      /\ fetches' = EmptyBag
      /\ events' = <<>>
      /\ location' = NoLocation
      /\ hasForegroundPermission' = FALSE
      /\ hasBackgroundPermission' = FALSE
      /\ needsDisclosure' = FALSE
      /\ hasAcceptedDisclosure' = FALSE
      /\ disclosureLoading' = TRUE
      /\ locationSubscription' = 0
      /\ watches' = IF drops THEN {w \in watches : w.id # locationSubscription}
                             ELSE watches
      /\ permInit' = "idle"
      /\ channels' = Unsubscribe(channels, mounts)

\* the screen is opened: useState initial values, and the mount effects start
\* fetchTripDetails, the channel, initializePermissions and checkDisclosureStatus
Mount ==
  /\ ~mounted
  /\ mounts < MaxMounts
  /\ mounted' = TRUE
  /\ mounts' = mounts + 1
  /\ channels' = Subscribe(channels, mounts')
  /\ fetches' = SetToBag({NewFetch})
  /\ permInit' = "fgQuery"
  /\ UNCHANGED <<renderVars, sideVars, store, driver_location, storageFlag, osFg, osBg,
                 tripPhase, loading, actionLoading, pickupCoords,
                 destinationCoords, ops, events, notifs, acceptCalls, now, alert>>

\* the header's back button (or the system back gesture)
GoBack ==
  /\ mounted
  /\ Unmounted
  /\ UNCHANGED <<store, driver_location, storageFlag, osFg, osBg, mounts, sideVars, ops,
                 notifs, bgRequests, acceptCalls, watchReqs, inserts, obsVars>>

\* ------------------------------------------------- transitions (the buttons)
\* a transition that notifies the dispatcher before its update is sent
PressNotifies(kind, ts) ==
  /\ ~actionLoading
  /\ actionLoading' = TRUE
  /\ ops' = ops \cup {[kind |-> kind, inst |-> mounts, stage |-> "sent", ts |-> ts]}
  /\ BagCardinality(notifs) < MaxNotifs
  /\ notifs' = notifs (+) SetToBag({NotifyAction(kind)})
  /\ UNCHANGED <<renderVars, gpsRest, store, mounted, mounts, sideVars, channels, tripPhase,
                 loading, pickupCoords, destinationCoords, fetches, events,
                 alert>>

\* the first half of acceptTrip / startTrip / arrivedAtPickup / startRide /
\* completeTrip: setActionLoading(true) and the update request leaves
Press(kind, ts) ==
  /\ ~actionLoading                       \* disabled={actionLoading}
  /\ actionLoading' = TRUE
  /\ ops' = ops \cup {[kind |-> kind, inst |-> mounts, stage |-> "sent", ts |-> ts]}
  /\ UNCHANGED <<renderVars, gpsRest, store, mounted, mounts, sideVars, channels, tripPhase,
                 loading, pickupCoords, destinationCoords, fetches, events,
                 notifs, alert>>

\* {canAccept && <Accept Trip>} of the details view
AcceptTrip ==
  /\ DetailsView /\ canAccept
  /\ Press("accept", Unset)
  /\ UNCHANGED now

\* {canStart && <Start Trip>} of the details view
StartTrip ==
  /\ DetailsView /\ canStart
  /\ Press("start", Unset)
  /\ UNCHANGED now

\* the timestamped transitions read new Date() when the request is built
Stamped(kind) ==
  /\ now < MaxClock
  /\ Press(kind, now)
  /\ now' = now + 1

ArrivedAtPickupInAnyPhase ==
  /\ ActiveView
  /\ Stamped("arrived")

ArrivedAtPickup ==
  /\ ActiveView /\ tripPhase = "en_route_to_pickup"
  /\ Stamped("arrived")

StartRide ==
  /\ ActiveView /\ tripPhase = "arrived_at_pickup"
  /\ Stamped("ride")

CompleteTrip ==
  /\ ActiveView /\ tripPhase = "en_route_to_destination"
  /\ Stamped("complete")

\* the database applies the update of a request in flight
OpCommit ==
  \E o \in ops :
    /\ o.stage = "sent"
    /\ CanPublish
    /\ store' = ApplyUpdate(store, o.kind, o.ts)
    /\ notifications' = AfterUpdate(store, store')
      /\ events' = Publish(store')
    /\ ops' = (ops \ {o}) \cup {[o EXCEPT !.stage = "committed"]}
    /\ UNCHANGED <<renderVars, gpsRest, mounted, mounts, restVars, channels, tripPhase, loading,
                   actionLoading, pickupCoords, destinationCoords, fetches,
                   notifs, now, alert>>

\* the instance that issued a call is still the mounted one
Live(inst) == mounted /\ inst = mounts

\* a catch block that advances the local phase although the update failed
OpErrorOptimistic ==
  \E o \in ops :
    /\ o.stage = "sent"
    /\ ops' = ops \ {o}
    /\ alert' = "Error"
    /\ actionLoading' = IF Live(o.inst) THEN FALSE ELSE actionLoading
    /\ tripPhase' = IF Live(o.inst) THEN PhaseAfter(o.kind, tripPhase) ELSE tripPhase
    /\ UNCHANGED <<renderVars, gpsRest, store, mounted, mounts, sideVars, channels,
                   loading, pickupCoords, destinationCoords, fetches, events,
                   notifs, now>>

\* the update resolved with an error (network or database): catch + finally
OpError ==
  \E o \in ops :
    /\ o.stage = "sent"
    /\ ops' = ops \ {o}
    /\ alert' = "Error"
    /\ actionLoading' = IF Live(o.inst) THEN FALSE ELSE actionLoading
    /\ UNCHANGED <<renderVars, gpsRest, store, mounted, mounts, sideVars, channels, tripPhase,
                   loading, pickupCoords, destinationCoords, fetches, events,
                   notifs, now>>

\* the rest of a transition's try block once the update resolved without error
\* (sendsNotify: it reaches its notifyDispatcher call), then finally
Continue(o, sendsNotify) ==
  /\ ops' = ops \ {o}
  /\ IF sendsNotify
       THEN /\ BagCardinality(notifs) < MaxNotifs
            /\ notifs' = notifs (+) SetToBag({NotifyAction(o.kind)})
       ELSE notifs' = notifs
  /\ alert' = SuccessAlert(o.kind)
  /\ IF Live(o.inst) /\ o.kind = "complete"
       THEN \* navigation.goBack()
            /\ Unmounted
            /\ UNCHANGED <<bgRequests, watchReqs, inserts, consoleLog, bgCalls>>
       ELSE /\ tripPhase' = IF Live(o.inst) THEN PhaseAfter(o.kind, tripPhase)
                                            ELSE tripPhase
            /\ actionLoading' = IF Live(o.inst) THEN FALSE ELSE actionLoading
            /\ IF Live(o.inst) /\ o.kind \in {"accept", "start"}
                 THEN /\ BagCardinality(fetches) < MaxFetches
                      /\ fetches' = fetches (+) SetToBag({NewFetch})
                 ELSE fetches' = fetches
            /\ UNCHANGED <<renderVars, mounted, channels, loading, events,
                           pickupCoords,
                           destinationCoords, permInit>>
  /\ UNCHANGED <<store, driver_location, storageFlag, osFg, osBg, mounts, sideVars,
                 acceptCalls, now>>

OpResolve ==
  \E o \in ops :
    /\ o.stage = "committed"
    /\ Continue(o, TRUE)

\* notifyDispatcher's fetch resolved: response.ok, a non-OK response, or a
\* throw; the latter two only log
NotifyResolve(outcome) ==
  \E n \in BagToSet(notifs) :
    /\ notifs' = notifs (-) SetToBag({n})
    /\ consoleLog' = IF outcome = "ok" THEN consoleLog ELSE "notify_failed"
    /\ UNCHANGED <<renderVarsNoLog, gpsRest, store, mounted, mounts, sideVars, channels, tripPhase,
                   loading, actionLoading, pickupCoords, destinationCoords,
                   ops, fetches, events, now, alert>>

\* ------------------------------------------------------- fetchTripDetails
\* the select reaches the database and reads the row
FetchRead ==
  \E f \in BagToSet(fetches) :
    /\ f.stage = "sent"
    /\ fetches' = (fetches (-) SetToBag({f}))
                    (+) SetToBag({[stage |-> "read", snap |-> store]})
    /\ UNCHANGED <<renderVars, gpsRest, store, mounted, mounts, sideVars, channels, tripPhase,
                   loading, actionLoading, pickupCoords, destinationCoords,
                   ops, events, notifs, now, alert>>

\* the select failed: catch shows the dialog, finally clears loading
FetchError ==
  \E f \in BagToSet(fetches) :
    /\ f.stage = "sent"
    /\ fetches' = fetches (-) SetToBag({f})
    /\ alert' = "Error: Failed to load trip details"
    /\ loading' = FALSE
    /\ UNCHANGED <<renderVars, gpsRest, store, mounted, mounts, sideVars, channels, tripPhase,
                   actionLoading, pickupCoords, destinationCoords, ops,
                   events, notifs, now>>

\* 'Set initial trip phase' from the row that was read
PhaseOfFetch(snap, phase) ==
  IF snap.trip_phase # NULL THEN snap.trip_phase
  ELSE IF snap.status = "in_progress" THEN "en_route_to_pickup"
  ELSE phase

\* the row arrives: the phase is set, then the client and driver rows are
\* awaited (T1 has a client, so there is always such an await)
FetchData ==
  \E f \in BagToSet(fetches) :
    /\ f.stage = "read"
    /\ tripPhase' = PhaseOfFetch(f.snap, tripPhase)
    /\ fetches' = (fetches (-) SetToBag({f}))
                    (+) SetToBag({[f EXCEPT !.stage = "enrich"]})
    /\ UNCHANGED <<renderVars, gpsRest, store, mounted, mounts, sideVars, channels, loading,
                   actionLoading, pickupCoords, destinationCoords, ops,
                   events, notifs, now, alert>>

\* enrichedTrip: the row plus the client's profile and, when the row has a
\* driver, that driver's profile
Enriched(snap) ==
  LET keys == DOMAIN snap \cup {"profiles"}
                \cup (IF snap.driver_id # NULL THEN {"driver"} ELSE {})
  IN  [k \in keys |-> CASE k = "profiles" -> "client"
                        [] k = "driver" -> snap.driver_id
                        [] OTHER -> snap[k]]

\* the related rows arrived: setTrip(enrichedTrip), the addresses are sent to
\* the geocoder, finally clears loading
FetchDone ==
  \E f \in BagToSet(fetches) :
    /\ f.stage = "enrich"
    /\ fetches' = fetches (-) SetToBag({f})
    /\ Rerender([Cur EXCEPT !.trip = Enriched(f.snap)])
    /\ loading' = FALSE
    /\ pickupCoords' = IF pickupCoords = "none" THEN "pending" ELSE pickupCoords
    /\ destinationCoords' = IF destinationCoords = "none" THEN "pending"
                                                         ELSE destinationCoords
    /\ UNCHANGED <<gpsRest, store, mounted, mounts, sideVars, channels, tripPhase, actionLoading,
                   ops, events, notifs, now, alert>>

\* geocodeAddress got a result for the pickup / the destination address
GeocodePickup ==
  /\ mounted /\ pickupCoords = "pending"
  /\ pickupCoords' = "set"
  /\ UNCHANGED <<renderVars, gpsRest, store, mounted, mounts, sideVars, channels, tripPhase,
                 loading, actionLoading, destinationCoords, ops, fetches,
                 events, notifs, now, alert>>

GeocodeDestination ==
  /\ mounted /\ destinationCoords = "pending"
  /\ destinationCoords' = "set"
  /\ UNCHANGED <<renderVars, gpsRest, store, mounted, mounts, sideVars, channels, tripPhase,
                 loading, actionLoading, pickupCoords, ops, fetches, events,
                 notifs, now, alert>>

\* ------------------------------------------------------ realtime channel
\* setTrip(prev => ({ ...prev, ...payload.new })): a key of the event takes the
\* event's value, any other key of the local trip (the enrichment) stays
MergeEventReplace(prev, new) == new

MergeEvent(prev, new) ==
  [k \in DOMAIN prev \cup DOMAIN new |-> IF k \in DOMAIN new THEN new[k] ELSE prev[k]]

\* if (payload.new.trip_phase) setTripPhase(payload.new.trip_phase)
PhaseOfEvent(new, phase) == IF new.trip_phase # NULL THEN new.trip_phase ELSE phase

\* the channel's callback runs for the oldest undelivered UPDATE
DeliverEvent ==
  /\ mounted /\ events # <<>>
  /\ events' = Tail(events)
  /\ Rerender([Cur EXCEPT !.trip = MergeEvent(trip, Head(events))])
  /\ tripPhase' = PhaseOfEvent(Head(events), tripPhase)
  /\ UNCHANGED <<gpsRest, store, mounted, mounts, sideVars, channels, loading, actionLoading,
                 pickupCoords, destinationCoords, ops, fetches, notifs, now,
                 alert>>

\* ------------------------------------------------- the other parties
\* the dispatcher cancels the trip
DispatcherCancel ==
  /\ store.status \notin {"completed", "cancelled"}
  /\ CanPublish
  /\ store' = [store EXCEPT !.status = "cancelled"]
  /\ notifications' = AfterUpdate(store, store')
  /\ events' = Publish(store')
  /\ UNCHANGED <<renderVars, gpsRest, mounted, mounts, restVars, channels, tripPhase, loading,
                 actionLoading, pickupCoords, destinationCoords, ops, fetches,
                 notifs, now, alert>>

\* the dispatcher gives the not yet accepted trip to another driver
DispatcherReassign ==
  /\ store.status = "upcoming"
  /\ store.driver_id = NULL
  /\ store.assigned_driver_id = D1
  /\ CanPublish
  /\ store' = [store EXCEPT !.assigned_driver_id = D2,
                            !.driver_acceptance_status = "assigned_waiting"]
  /\ notifications' = AfterUpdate(store, store')
  /\ events' = Publish(store')
  /\ UNCHANGED <<renderVars, gpsRest, mounted, mounts, restVars, channels, tripPhase, loading,
                 actionLoading, pickupCoords, destinationCoords, ops, fetches,
                 notifs, now, alert>>

\* the dispatcher gives the trip that is under way to another driver
DispatcherChangeDriver ==
  /\ store.status = "in_progress"
  /\ store.driver_id = D1
  /\ CanPublish
  /\ store' = [store EXCEPT !.driver_id = D2, !.assigned_driver_id = D2]
  /\ notifications' = AfterUpdate(store, store')
  /\ events' = Publish(store')
  /\ UNCHANGED <<renderVars, gpsRest, mounted, mounts, restVars, channels, tripPhase, loading,
                 actionLoading, pickupCoords, destinationCoords, ops, fetches,
                 notifs, now, alert>>

\* acceptTrip on the other driver's phone, whose canAccept holds of the row
OtherDriverAccept ==
  /\ store.status = "upcoming"
  /\ store.assigned_driver_id = D2
  /\ store.driver_id = NULL
  /\ store.driver_acceptance_status \in {"assigned_waiting", NULL}
  /\ CanPublish
  /\ store' = [store EXCEPT !.driver_id = D2,
                            !.driver_acceptance_status = "accepted"]
  /\ notifications' = AfterUpdate(store, store')
  /\ events' = Publish(store')
  /\ UNCHANGED <<renderVars, gpsRest, mounted, mounts, restVars, channels, tripPhase, loading,
                 actionLoading, pickupCoords, destinationCoords, ops, fetches,
                 notifs, now, alert>>

\* ------------------------------------------------ initializePermissions
\* Location.getForegroundPermissionsAsync() resolved
PermFgQuery ==
  /\ mounted /\ permInit = "fgQuery"
  /\ IF osFg = "granted"
       THEN /\ Rerender([Cur EXCEPT !.fg = TRUE])
            /\ permInit' = "position"
       ELSE /\ permInit' = "fgRequest"     \* requestForegroundPermission()
            /\ UNCHANGED renderVars
  /\ UNCHANGED <<store, driver_location, storageFlag, osFg, osBg, acceptCalls,
                 mounted, mounts, sideVars, channels, tripPhase, loading, actionLoading,
                 pickupCoords, destinationCoords, ops, fetches, events,
                 notifs, now, alert>>

\* Location.getCurrentPositionAsync() resolved with a fix (ok), or threw
PermPosition(ok) ==
  /\ mounted /\ permInit = "position"
  /\ permInit' = "bgQuery"
  /\ IF ok
       THEN /\ now < MaxClock
            /\ Rerender([Cur EXCEPT !.loc = Position(now, 0, Fix)])
            /\ now' = now + 1
       ELSE /\ Rerender([Cur EXCEPT !.log = "no_initial_location"])
            /\ UNCHANGED now
  /\ UNCHANGED <<store, driver_location, storageFlag, osFg, osBg, acceptCalls,
                 mounted, mounts, sideVars, channels, tripPhase, loading, actionLoading,
                 pickupCoords, destinationCoords, ops, fetches, events,
                 notifs, alert>>

\* the OS's answer to a permission prompt: a granted permission stays granted,
\* a denied one is not asked again, otherwise the user chooses
PromptOutcomes(status) ==
  CASE status = "granted" -> {"granted"}
    [] status = "denied" -> {"denied"}
    [] OTHER -> {"granted", "denied"}

\* Location.requestForegroundPermissionsAsync() resolved
PermFgRequest ==
  /\ mounted /\ permInit = "fgRequest"
  /\ permInit' = "bgQuery"
  /\ \E outcome \in PromptOutcomes(osFg) :
       /\ osFg' = outcome
       /\ IF outcome = "granted"
            THEN /\ Rerender([Cur EXCEPT !.fg = TRUE])
                 /\ UNCHANGED alert
            ELSE /\ alert' = "Location Permission Required"
                 /\ UNCHANGED renderVars
  /\ UNCHANGED <<store, driver_location, storageFlag, osBg, acceptCalls,
                 mounted, mounts, sideVars, channels, tripPhase, loading, actionLoading,
                 pickupCoords, destinationCoords, ops, fetches, events,
                 notifs, now>>

\* Location.getBackgroundPermissionsAsync() resolved
PermBgQuery ==
  /\ mounted /\ permInit = "bgQuery"
  /\ permInit' = "done"
  /\ IF osBg = "granted"
       THEN Rerender([Cur EXCEPT !.bg = TRUE])
       ELSE UNCHANGED renderVars
  /\ UNCHANGED <<store, driver_location, storageFlag, osFg, osBg, acceptCalls,
                 mounted, mounts, sideVars, channels, tripPhase, loading, actionLoading,
                 pickupCoords, destinationCoords, ops, fetches, events,
                 notifs, now, alert>>

\* -------------------------------------------------- useLocationDisclosure
\* checkDisclosureStatus: AsyncStorage.getItem resolved (ok), or threw
DisclosureCheck(ok) ==
  /\ mounted /\ disclosureLoading
  /\ Rerender([Cur EXCEPT !.acc = (ok /\ storageFlag), !.dl = FALSE,
                          !.log = IF ok THEN consoleLog ELSE "disclosure_not_read"])
  /\ UNCHANGED <<gpsRest, store, mounted, mounts, sideVars, channels, tripPhase, loading,
                 actionLoading, pickupCoords, destinationCoords, ops, fetches,
                 events, notifs, now, alert>>

\* the modal's accept button: handleDisclosureAccept runs up to its await; the
\* requestBackgroundPermission it will call is the one of this render
DisclosureAcceptPress ==
  /\ mounted /\ showDisclosureModal
  /\ BagCardinality(acceptCalls) < MaxPending
  /\ acceptCalls' = acceptCalls
                      (+) SetToBag({[inst |-> mounts, acc |-> hasAcceptedDisclosure]})
  /\ UNCHANGED <<renderVars, driver_location, storageFlag, osFg, osBg, permInit,
                 store, mounted, mounts, sideVars, channels, tripPhase, loading, actionLoading,
                 pickupCoords, destinationCoords, ops, fetches, events,
                 notifs, now, alert>>

\* acceptDisclosure resolved (AsyncStorage.setItem stored the flag, or threw),
\* then the rest of handleDisclosureAccept
DisclosureAcceptResolve(stored) ==
  \E c \in BagToSet(acceptCalls) :
    /\ acceptCalls' = acceptCalls (-) SetToBag({c})
    /\ storageFlag' = (storageFlag \/ stored)
    /\ IF Live(c.inst)
         THEN Rerender([Cur EXCEPT
                !.acc = IF stored THEN TRUE ELSE hasAcceptedDisclosure,
                !.modal = FALSE,
                !.log = IF stored THEN consoleLog ELSE "disclosure_not_saved",
                !.direct = IF stored THEN RequestBackgroundPermission(c.acc)
                                     ELSE "none"])
         ELSE \* the component is gone: only the call the closure makes is left
              IF stored /\ RequestBackgroundPermission(c.acc) = "os"
                THEN /\ BagCardinality(bgRequests) < MaxPending
                     /\ bgRequests' = bgRequests (+) SetToBag({c.inst})
                     /\ bgCalls' = bgCalls \cup {[accepted |-> c.acc, fg |-> FALSE]}
                     /\ UNCHANGED <<renderVarsNoBg, consoleLog>>
                ELSE UNCHANGED renderVars
    /\ UNCHANGED <<driver_location, osFg, osBg, permInit, store, mounted,
                   mounts, sideVars, channels, tripPhase, loading, actionLoading, pickupCoords,
                   destinationCoords, ops, fetches, events, notifs, now, alert>>

\* the modal's decline button
DisclosureDecline ==
  /\ mounted /\ showDisclosureModal
  /\ Rerender([Cur EXCEPT !.modal = FALSE])
  /\ alert' = "Location Access Required"
  /\ UNCHANGED <<gpsRest, store, mounted, mounts, sideVars, channels, tripPhase, loading,
                 actionLoading, pickupCoords, destinationCoords, ops, fetches,
                 events, notifs, now>>

\* ------------------------------------------- requestBackgroundPermission
\* the OS's answer to a background request: refused while the foreground
\* permission is missing
BackgroundOutcomes ==
  IF osFg # "granted" THEN {"denied"} ELSE PromptOutcomes(osBg)

\* Location.requestBackgroundPermissionsAsync() resolved
BgRequestResolve ==
  \E inst \in BagToSet(bgRequests), outcome \in BackgroundOutcomes :
    /\ osBg' = outcome
    /\ IF Live(inst) /\ outcome = "granted"
         THEN /\ Rerender([Cur EXCEPT !.bg = TRUE, !.needs = FALSE,
                                      !.bgDone = SetToBag({inst})])
              /\ UNCHANGED alert
         ELSE /\ bgRequests' = bgRequests (-) SetToBag({inst})
              /\ alert' = IF Live(inst) THEN "Background Location Required"
                                        ELSE alert
              /\ UNCHANGED <<renderVarsNoBg, bgCalls, consoleLog>>
    /\ UNCHANGED <<driver_location, storageFlag, osFg, permInit, acceptCalls,
                   store, mounted, mounts, sideVars, channels, tripPhase, loading, actionLoading,
                   pickupCoords, destinationCoords, ops, fetches, events,
                   notifs, now>>

\* ------------------------------------------------------ location tracking
\* Location.watchPositionAsync() resolved (ok): the watch is registered and
\* the ref takes it; or it threw
WatchResolve(ok) ==
  \E inst \in BagToSet(watchReqs) :
    /\ watchReqs' = watchReqs (-) SetToBag({inst})
    /\ IF ok
         THEN LET id == CHOOSE i \in 1..(Cardinality(watches) + 1) :
                         \A w \in watches : w.id # i
              IN  /\ watches' = watches \cup {[id |-> id, inst |-> inst]}
                  /\ locationSubscription' =
                       IF Live(inst) THEN id ELSE locationSubscription
                  /\ UNCHANGED alert
         ELSE /\ alert' = IF Live(inst) THEN "Tracking Error" ELSE alert
              /\ UNCHANGED <<watches, locationSubscription>>
    /\ UNCHANGED <<trip, location, hasForegroundPermission,
                   hasBackgroundPermission, needsDisclosure,
                   hasAcceptedDisclosure, disclosureLoading,
                   showDisclosureModal, bgRequests, bgCalls, inserts,
                   consoleLog, gpsRest, store, mounted, mounts, sideVars, channels, tripPhase,
                   loading, actionLoading, pickupCoords, destinationCoords,
                   ops, fetches, events, notifs, now>>

\* location.coords.latitude in the active view's <Marker>: rendering the
\* active view with a position that has no coords object throws
RenderThrowsWith(loc) ==
  /\ Shown /\ isInProgress /\ currentTarget
  /\ loc.coords.t \in {"undefined", "null"}

RenderThrows == ActiveView /\ RenderThrowsWith(location)

\* the ErrorBoundary around the app caught a render error: its fallback
\* replaces the tree, which unmounts the screen
ErrorBoundaryCatch ==
  /\ Unmounted
  /\ alert' = "Something Went Wrong"
  /\ consoleLog' = "render_error"
  /\ UNCHANGED <<store, driver_location, storageFlag, osFg, osBg, mounts, sideVars, ops,
                 notifs, bgRequests, acceptCalls, watchReqs, inserts, bgCalls>>

\* a render of the active view threw after a change of the screen's own state
RenderError ==
  /\ RenderThrows
  /\ ErrorBoundaryCatch
  /\ UNCHANGED now

\* a registered watch of the mounted instance reports a position with coords c
\* and f ticks below the millisecond:
\* if (isMounted.current) setLocation(newLocation)
WatchReport(c, f) ==
  /\ \E w \in watches : Live(w.inst)
  /\ now < MaxClock
  /\ now' = now + 1
  /\ IF RenderThrowsWith(Position(now, f, c))
       THEN ErrorBoundaryCatch
       ELSE /\ Rerender([Cur EXCEPT !.loc = Position(now, f, c)])
            /\ UNCHANGED <<gpsRest, store, mounted, mounts, sideVars, channels, tripPhase,
                           loading, actionLoading, pickupCoords,
                           destinationCoords, ops, fetches, events, notifs,
                           alert>>

\* ... an ordinary fix
WatchSample == WatchReport(Fix, 0)

\* the coords a watch may report: fixes with and without heading and speed,
\* with a heading and speed of 0, without a numeric latitude or longitude,
\* and no coords object
SampleCoords ==
  {Fix,
   Coords(Num(41), Num(83), Num(0), Num(0)),
   Coords(Num(41), Num(83), Undefined, JsNull),
   Coords(Undefined, Num(83), JsNull, JsNull),
   Coords(Num(41), NotANumber, JsNull, JsNull),
   Undefined}

\* ... any position
WatchSampleAny ==
  \E c \in SampleCoords, f \in 0..(TicksPerMs - 1) : WatchReport(c, f)

\* a ?? null
Nullish(a) == IF a.t \in {"undefined", "null"} THEN JsNull ELSE a

\* new Date(location.timestamp).toISOString(): a Date holds whole
\* milliseconds, the string has three decimals of the second
ToISOString(loc) == loc.timestamp

\* the row sendLocationUpdate inserts for a sample
LocationRow(loc) ==
  [trip_id |-> "T1", driver_id |-> D1,
   latitude |-> loc.coords.latitude,
   longitude |-> loc.coords.longitude,
   heading |-> Nullish(loc.coords.heading),
   speed |-> Nullish(loc.coords.speed),
   timestamp |-> ToISOString(loc)]

\* the insert into driver_location resolved: stored (ok), or an error that is
\* logged
InsertResolve(ok) ==
  \E loc \in BagToSet(inserts) :
    /\ inserts' = inserts (-) SetToBag({loc})
    /\ IF ok
         THEN /\ driver_location' = driver_location (+) SetToBag({LocationRow(loc)})
              /\ UNCHANGED consoleLog
         ELSE /\ consoleLog' = "location_not_saved"
              /\ UNCHANGED driver_location
    /\ UNCHANGED <<trip, location, hasForegroundPermission,
                   hasBackgroundPermission, needsDisclosure,
                   hasAcceptedDisclosure, disclosureLoading,
                   showDisclosureModal, locationSubscription, watches,
                   watchReqs, bgRequests, bgCalls, storageFlag, osFg, osBg,
                   permInit, acceptCalls, store, mounted, mounts, sideVars, channels, tripPhase,
                   loading, actionLoading, pickupCoords, destinationCoords,
                   ops, fetches, events, notifs, now, alert>>

\* ------------------------------------------------------- specifications
\* the screen right after it was opened: useState initial values, the mount
\* effects have started their calls
\* what the trip screen's specifications leave aside
InitShiftIdle ==
  /\ driver_shifts = {}
  /\ vehicle_checkoffs = {}
  /\ today = 1
  /\ currentShift = 0
  /\ todayInspection = 0
  /\ shiftLoading = FALSE
  /\ processing = FALSE
  /\ inspProcessing = FALSE
  /\ shiftCalls = {}
  /\ clockAlert = "none"

InitNotifyIdle ==
  /\ userId = D1
  /\ notificationSubscription = 0
  /\ rtChannels = {}
  /\ reconnectTimers = EmptyBag

InitSide ==
  /\ notifications = EmptyBag
  /\ InitShiftIdle
  /\ InitNotifyIdle

InitTripScreen ==
  /\ mounted = TRUE
  /\ mounts = 1
  /\ trip = NoTrip
  /\ tripPhase = "waiting"
  /\ loading = TRUE
  /\ actionLoading = FALSE
  /\ pickupCoords = "none"
  /\ destinationCoords = "none"
  /\ showDisclosureModal = FALSE
  /\ location = NoLocation
  /\ hasForegroundPermission = FALSE
  /\ hasBackgroundPermission = FALSE
  /\ needsDisclosure = FALSE
  /\ locationSubscription = 0
  /\ hasAcceptedDisclosure = FALSE
  /\ disclosureLoading = TRUE
  /\ ops = {}
  /\ fetches = SetToBag({NewFetch})
  /\ events = <<>>
  /\ notifs = EmptyBag
  /\ permInit = "fgQuery"
  /\ bgRequests = EmptyBag
  /\ acceptCalls = EmptyBag
  /\ watchReqs = EmptyBag
  /\ inserts = EmptyBag
  /\ alert = "none"
  /\ consoleLog = "none"
  /\ bgCalls = {}
  /\ driver_location = EmptyBag
  /\ watches = {}
  /\ channels = {1}

InitScreen ==
  /\ InitTripScreen
  /\ InitSide

\* T1 is assigned to D1 and not yet accepted when the driver opens it; the
\* driver granted both location permissions and accepted the disclosure before
Init ==
  /\ InitScreen
  /\ store \in {TripRow("upcoming", NULL, D1, das, NULL, Unset, Unset, Unset) :
                  das \in {"assigned_waiting", NULL}}
  /\ now = 1
  /\ storageFlag = TRUE
  /\ osFg = "granted"
  /\ osBg = "granted"

\* the location services have answered everything they were asked
Settled ==
  /\ permInit = "done" /\ ~disclosureLoading
  /\ watchReqs = EmptyBag /\ inserts = EmptyBag /\ bgRequests = EmptyBag

\* The trip from assignment to completion on one opened screen.  The driver
\* accepts and starts the trip once the location services have settled, and
\* the location services do not fail.
Next ==
  \/ Settled /\ AcceptTrip
  \/ Settled /\ StartTrip
  \/ ArrivedAtPickup
  \/ StartRide
  \/ CompleteTrip
  \/ OpCommit
  \/ OpError
  \/ OpResolve
  \/ \E outcome \in {"ok", "not_ok", "throw"} : NotifyResolve(outcome)
  \/ FetchRead
  \/ FetchError
  \/ FetchData
  \/ FetchDone
  \/ GeocodePickup
  \/ GeocodeDestination
  \/ DeliverEvent
  \/ DispatcherReassign
  \/ OtherDriverAccept
  \/ PermFgQuery
  \/ PermPosition(TRUE)
  \/ PermBgQuery
  \/ DisclosureCheck(TRUE)
  \/ WatchResolve(TRUE)
  \/ InsertResolve(TRUE)

Spec == Init /\ [][Next]_vars

\* The ride is under way (the passenger is on board) when the driver opens
\* the trip.
InitRide ==
  /\ InitScreen
  /\ store = TripRow("in_progress", D1, D1, "started", "en_route_to_destination",
                     1, 2, Unset)
  /\ now = 3

\* ... on a device that may or may not have granted the location permissions
\* and stored the disclosure flag
InitPerm ==
  /\ InitRide
  /\ storageFlag \in BOOLEAN
  /\ osFg \in {"granted", "undetermined", "denied"}
  /\ osBg \in {"granted", "undetermined", "denied"}
  /\ osFg # "granted" => osBg # "granted"

\* Permissions and disclosure while the trip is tracked: every answer of the
\* OS and of the driver, the screen left and reopened, the dispatcher
\* cancelling the trip.
NextPerm ==
  \/ FetchRead
  \/ FetchData
  \/ FetchDone
  \/ DeliverEvent
  \/ DispatcherCancel
  \/ GoBack
  \/ Mount
  \/ PermFgQuery
  \/ \E ok \in BOOLEAN : PermPosition(ok)
  \/ PermFgRequest
  \/ PermBgQuery
  \/ \E ok \in BOOLEAN : DisclosureCheck(ok)
  \/ DisclosureAcceptPress
  \/ \E stored \in BOOLEAN : DisclosureAcceptResolve(stored)
  \/ DisclosureDecline
  \/ BgRequestResolve
  \/ \E ok \in BOOLEAN : WatchResolve(ok)

SpecPerm == InitPerm /\ [][NextPerm]_vars

\* ... on a device that granted the permissions and stored the flag before
InitTrack ==
  /\ InitRide
  /\ storageFlag = TRUE
  /\ osFg = "granted"
  /\ osBg = "granted"

\* The tracked ride to its completion on one opened screen.
NextTrack ==
  \/ CompleteTrip
  \/ OpCommit
  \/ OpError
  \/ OpResolve
  \/ NotifyResolve("ok")
  \/ FetchRead
  \/ FetchData
  \/ FetchDone
  \/ GeocodePickup
  \/ GeocodeDestination
  \/ DeliverEvent
  \/ PermFgQuery
  \/ PermPosition(TRUE)
  \/ PermBgQuery
  \/ DisclosureCheck(TRUE)
  \/ WatchResolve(TRUE)
  \/ WatchSample
  \/ \E ok \in BOOLEAN : InsertResolve(ok)

SpecTrack == InitTrack /\ [][NextTrack]_vars

\* The tracked ride when the watch reports any position; a render that throws
\* takes the screen down before anything else happens.
NextSample ==
  \/ RenderError
  \/ ~RenderThrows /\ CompleteTrip
  \/ ~RenderThrows /\ OpCommit
  \/ ~RenderThrows /\ OpResolve
  \/ ~RenderThrows /\ NotifyResolve("ok")
  \/ ~RenderThrows /\ FetchRead
  \/ ~RenderThrows /\ FetchData
  \/ ~RenderThrows /\ FetchDone
  \/ ~RenderThrows /\ GeocodePickup
  \/ ~RenderThrows /\ GeocodeDestination
  \/ ~RenderThrows /\ DeliverEvent
  \/ ~RenderThrows /\ PermFgQuery
  \/ ~RenderThrows /\ PermPosition(TRUE)
  \/ ~RenderThrows /\ PermBgQuery
  \/ ~RenderThrows /\ DisclosureCheck(TRUE)
  \/ ~RenderThrows /\ WatchResolve(TRUE)
  \/ ~RenderThrows /\ WatchSampleAny
  \/ ~RenderThrows /\ \E ok \in BOOLEAN : InsertResolve(ok)

SpecSample == InitTrack /\ [][NextSample]_vars

\* The tracked ride when the dispatcher may cancel the trip or give it to
\* another driver.
NextRevoke ==
  \/ CompleteTrip
  \/ OpCommit
  \/ OpResolve
  \/ NotifyResolve("ok")
  \/ FetchRead
  \/ FetchData
  \/ FetchDone
  \/ GeocodePickup
  \/ GeocodeDestination
  \/ DeliverEvent
  \/ DispatcherCancel
  \/ DispatcherChangeDriver
  \/ PermFgQuery
  \/ PermPosition(TRUE)
  \/ PermBgQuery
  \/ DisclosureCheck(TRUE)
  \/ WatchResolve(TRUE)
  \/ WatchSample
  \/ \E ok \in BOOLEAN : InsertResolve(ok)

SpecRevoke == InitTrack /\ [][NextRevoke]_vars

\* T1 is accepted by D1 and waits to be started.
InitAccepted ==
  /\ InitScreen
  /\ store = TripRow("upcoming", D1, D1, "accepted", NULL, Unset, Unset, Unset)
  /\ now = 1
  /\ storageFlag = TRUE
  /\ osFg = "granted"
  /\ osBg = "granted"

\* The accepted trip from its start to its completion on one opened screen
\* when the dispatcher may cancel it; nothing fails.
NextCancel ==
  \/ Settled /\ StartTrip
  \/ ArrivedAtPickup
  \/ StartRide
  \/ CompleteTrip
  \/ OpCommit
  \/ OpResolve
  \/ NotifyResolve("ok")
  \/ FetchRead
  \/ FetchData
  \/ FetchDone
  \/ GeocodePickup
  \/ GeocodeDestination
  \/ DeliverEvent
  \/ DispatcherCancel
  \/ PermFgQuery
  \/ PermPosition(TRUE)
  \/ PermBgQuery
  \/ DisclosureCheck(TRUE)
  \/ WatchResolve(TRUE)
  \/ InsertResolve(TRUE)

SpecCancel == InitAccepted /\ [][NextCancel]_vars

\* The ride to its completion when the driver may leave the screen and open
\* it again; nothing fails.
NextRemount ==
  \/ Settled /\ CompleteTrip
  \/ OpCommit
  \/ OpResolve
  \/ NotifyResolve("ok")
  \/ FetchRead
  \/ FetchData
  \/ FetchDone
  \/ GeocodePickup
  \/ GeocodeDestination
  \/ DeliverEvent
  \/ GoBack
  \/ Mount
  \/ PermFgQuery
  \/ PermPosition(TRUE)
  \/ PermBgQuery
  \/ DisclosureCheck(TRUE)
  \/ WatchResolve(TRUE)
  \/ InsertResolve(TRUE)

SpecRemount == InitTrack /\ [][NextRemount]_vars

\* T1 is assigned to D1 and waiting on a device that holds the foreground
\* permission only and has no disclosure acceptance stored.
InitDisclose ==
  /\ InitScreen
  /\ store = TripRow("upcoming", NULL, D1, "assigned_waiting", NULL,
                     Unset, Unset, Unset)
  /\ now = 1
  /\ storageFlag = FALSE
  /\ osFg = "granted"
  /\ osBg = "undetermined"

\* Accepting and starting the trip on that device: tracking begins, the
\* disclosure is asked for, and the driver accepts or declines it.
NextDisclose ==
  \/ Settled /\ AcceptTrip
  \/ Settled /\ StartTrip
  \/ OpCommit
  \/ OpResolve
  \/ NotifyResolve("ok")
  \/ FetchRead
  \/ FetchData
  \/ FetchDone
  \/ DeliverEvent
  \/ PermFgQuery
  \/ PermPosition(TRUE)
  \/ PermBgQuery
  \/ DisclosureCheck(TRUE)
  \/ DisclosureAcceptPress
  \/ \E stored \in BOOLEAN : DisclosureAcceptResolve(stored)
  \/ DisclosureDecline
  \/ BgRequestResolve
  \/ WatchResolve(TRUE)
  \/ InsertResolve(TRUE)

SpecDisclose == InitDisclose /\ [][NextDisclose]_vars

\* The trip was started (the driver is on the way to the pickup) when the
\* driver opens it, on a device whose foreground permission is granted, still
\* to be asked for, or denied.
InitDegraded ==
  /\ InitScreen
  /\ store = TripRow("in_progress", D1, D1, "started", "en_route_to_pickup",
                     Unset, Unset, Unset)
  /\ now = 1
  /\ storageFlag = TRUE
  /\ osFg \in {"granted", "undetermined", "denied"}
  /\ osBg = IF osFg = "granted" THEN "granted" ELSE "undetermined"

\* The started trip to its completion on one opened screen, with whatever
\* the device allows.
NextDegraded ==
  \/ ArrivedAtPickup
  \/ StartRide
  \/ CompleteTrip
  \/ OpCommit
  \/ OpResolve
  \/ NotifyResolve("ok")
  \/ FetchRead
  \/ FetchData
  \/ FetchDone
  \/ GeocodePickup
  \/ GeocodeDestination
  \/ DeliverEvent
  \/ PermFgQuery
  \/ PermPosition(TRUE)
  \/ PermFgRequest
  \/ PermBgQuery
  \/ DisclosureCheck(TRUE)
  \/ WatchResolve(TRUE)
  \/ InsertResolve(TRUE)

SpecDegraded == InitDegraded /\ [][NextDegraded]_vars

\* ------------------------------------------------------------ the shifts
MaxShifts == 3     \* rows of driver_shifts
MaxDay == 2        \* the last date the calendar reaches

ShiftRow(id, day, out) == [id |-> id, clock_in |-> day, clock_out |-> out]

\* .is('clock_out', null)
OpenShifts == {r \in driver_shifts : r.clock_out = Unset}

\* .order('clock_in', { ascending: false }).limit(1).maybeSingle(): the id of
\* an open row with the latest clock_in, 0 (null) when there is none
LatestOpen ==
  IF OpenShifts = {} THEN {0}
  ELSE {r.id : r \in {q \in OpenShifts :
                        \A o \in OpenShifts : o.clock_in <= q.clock_in}}

\* .eq('checkoff_date', today) ... .maybeSingle(): the row's date, 0 (null)
\* when there is no row of that date
InspectionOf(date) == IF date \in vehicle_checkoffs THEN date ELSE 0

inspectionRequired == todayInspection = 0
isClockedIn == currentShift # 0

shiftOther == <<tripVars, notifications, notifyVars>>

\* checkActiveShift, the answer to the select of the open shift: an error is
\* thrown to catch and finally; otherwise setCurrentShift(shift), today is
\* read and the select of today's inspection is sent
CheckShift(ok) ==
  \E c \in shiftCalls :
    /\ c.kind = "check" /\ c.stage = "shift"
    /\ IF ok
       THEN /\ \E id \in LatestOpen : currentShift' = id
            /\ shiftCalls' = (shiftCalls \ {c})
                 \cup {[kind |-> "check", stage |-> "inspection", id |-> 0,
                        day |-> today]}
            /\ UNCHANGED shiftLoading
       ELSE /\ shiftCalls' = shiftCalls \ {c}
            /\ shiftLoading' = FALSE
            /\ UNCHANGED currentShift
    /\ UNCHANGED <<driver_shifts, vehicle_checkoffs, today, todayInspection,
                   processing, inspProcessing, clockAlert, shiftOther>>

\* checkActiveShift, the answer to the select of today's inspection:
\* setTodayInspection(inspection) unless it is an error; finally
\* setLoading(false)
CheckInspection(ok) ==
  \E c \in shiftCalls :
    /\ c.kind = "check" /\ c.stage = "inspection"
    /\ shiftCalls' = shiftCalls \ {c}
    /\ todayInspection' = IF ok THEN InspectionOf(c.day) ELSE todayInspection
    /\ shiftLoading' = FALSE
    /\ UNCHANGED <<driver_shifts, vehicle_checkoffs, today, currentShift,
                   processing, inspProcessing, clockAlert, shiftOther>>

\* the Clock In form is on the screen: not the spinner, {!isClockedIn && ...}
ClockInForm == ~shiftLoading /\ ~isClockedIn

\* the Clock Out form is on the screen
ClockOutForm == ~shiftLoading /\ isClockedIn

\* handleClockIn up to its await: the inspection check, the checks of the
\* two inputs, setProcessing(true), clockIn's insert is sent
handleClockIn(valid) ==
  /\ ~processing                        \* disabled={processing}
  /\ IF inspectionRequired
     THEN /\ clockAlert' = "Inspection Required"
          /\ UNCHANGED <<processing, shiftCalls>>
     ELSE IF ~valid
     THEN /\ clockAlert' = "Error: Please enter"
          /\ UNCHANGED <<processing, shiftCalls>>
     ELSE /\ processing' = TRUE
          /\ shiftCalls' = shiftCalls
               \cup {[kind |-> "clockIn", stage |-> "sent", id |-> 0, day |-> today]}
          /\ UNCHANGED clockAlert
  /\ UNCHANGED <<driver_shifts, vehicle_checkoffs, today, currentShift,
                 todayInspection, shiftLoading, inspProcessing, shiftOther>>

\* the Clock In button is pressed
HandleClockIn ==
  /\ ClockInForm
  /\ \E valid \in BOOLEAN : handleClockIn(valid)

\* clockIn's insert answers and handleClockIn runs to its end: the row is
\* stored with the clock_in of the call, setCurrentShift(data), 'Success';
\* or the error is rethrown and shown; finally setProcessing(false)
ClockInResolve(ok) ==
  \E c \in shiftCalls :
    /\ c.kind = "clockIn"
    /\ shiftCalls' = shiftCalls \ {c}
    /\ IF ok
       THEN /\ Cardinality(driver_shifts) < MaxShifts
            /\ LET id == Cardinality(driver_shifts) + 1
               IN  /\ driver_shifts' = driver_shifts \cup {ShiftRow(id, c.day, Unset)}
                   /\ currentShift' = id
            /\ clockAlert' = "Success: clocked in"
       ELSE /\ clockAlert' = "Error: clock in"
            /\ UNCHANGED <<driver_shifts, currentShift>>
    /\ processing' = FALSE
    /\ UNCHANGED <<vehicle_checkoffs, today, todayInspection, shiftLoading,
                   inspProcessing, shiftOther>>

\* handleClockOut: the odometer checks, then the 'Confirm Clock Out' dialog,
\* whose Clock Out button holds the clockOut of this render
HandleClockOut ==
  /\ ClockOutForm
  /\ ~processing
  /\ \A c \in shiftCalls : c.kind # "confirm"       \* the dialog is modal
  /\ \E valid \in BOOLEAN :
       IF valid
       THEN /\ clockAlert' = "Confirm Clock Out"
            /\ shiftCalls' = shiftCalls
                 \cup {[kind |-> "confirm", stage |-> "shown", id |-> currentShift,
                        day |-> 0]}
       ELSE /\ clockAlert' = "Error: odometer"
            /\ UNCHANGED shiftCalls
  /\ UNCHANGED <<driver_shifts, vehicle_checkoffs, today, currentShift,
                 todayInspection, shiftLoading, processing, inspProcessing,
                 shiftOther>>

\* the dialog's Cancel
CancelClockOut ==
  \E c \in shiftCalls :
    /\ c.kind = "confirm"
    /\ shiftCalls' = shiftCalls \ {c}
    /\ UNCHANGED <<driver_shifts, vehicle_checkoffs, today, currentShift,
                   todayInspection, shiftLoading, processing, inspProcessing,
                   clockAlert, shiftOther>>

\* clockOut as it was before the check of currentShift: the update is sent
\* with the id it has
clockOutUnchecked(cs, others) ==
  /\ processing' = TRUE
  /\ shiftCalls' = others
       \cup {[kind |-> "clockOut", stage |-> "sent", id |-> cs, day |-> today]}
  /\ UNCHANGED clockAlert

\* clockOut up to its await, called by the dialog's handler after
\* setProcessing(true), with the currentShift cs of its render: without a
\* current shift it throws 'No active shift', which the handler shows, and
\* finally setProcessing(false); otherwise the update of row cs is sent
clockOut(cs, others) ==
  IF cs = 0
  THEN /\ clockAlert' = "Error: No active shift"
       /\ processing' = FALSE
       /\ shiftCalls' = others
  ELSE /\ processing' = TRUE
       /\ shiftCalls' = others
            \cup {[kind |-> "clockOut", stage |-> "sent", id |-> cs, day |-> today]}
       /\ UNCHANGED clockAlert

\* the dialog's Clock Out
ConfirmClockOut ==
  \E c \in shiftCalls :
    /\ c.kind = "confirm"
    /\ clockOut(c.id, shiftCalls \ {c})
    /\ UNCHANGED <<driver_shifts, vehicle_checkoffs, today, currentShift,
                   todayInspection, shiftLoading, inspProcessing, shiftOther>>

\* clockOut's update answers and the dialog's handler runs to its end:
\* .eq('id', currentShift.id) sets clock_out of that row,
\* setCurrentShift(null), 'Success'; or .single() finds no row, or the
\* update fails, and the error is rethrown and shown; finally
\* setProcessing(false)
ClockOutResolve(ok) ==
  \E c \in shiftCalls :
    /\ c.kind = "clockOut"
    /\ shiftCalls' = shiftCalls \ {c}
    /\ IF ok /\ \E r \in driver_shifts : r.id = c.id
       THEN /\ driver_shifts' = {IF r.id = c.id THEN [r EXCEPT !.clock_out = c.day]
                                               ELSE r : r \in driver_shifts}
            /\ currentShift' = 0
            /\ clockAlert' = "Success: clocked out"
       ELSE /\ clockAlert' = "Error: clock out"
            /\ UNCHANGED <<driver_shifts, currentShift>>
    /\ processing' = FALSE
    /\ UNCHANGED <<vehicle_checkoffs, today, todayInspection, shiftLoading,
                   inspProcessing, shiftOther>>

\* VehicleInspectionScreen shows the form while todayInspection is null;
\* handleSubmit: setProcessing(true), saveInspection's insert is sent
HandleSubmit ==
  /\ todayInspection = 0
  /\ ~inspProcessing
  /\ inspProcessing' = TRUE
  /\ shiftCalls' = shiftCalls
       \cup {[kind |-> "saveInspection", stage |-> "sent", id |-> 0, day |-> 0]}
  /\ UNCHANGED <<driver_shifts, vehicle_checkoffs, today, currentShift,
                 todayInspection, shiftLoading, processing, clockAlert,
                 shiftOther>>

\* saveInspection's insert answers: the row has today's checkoff_date,
\* setTodayInspection(data); or the error is rethrown and shown; finally
\* setProcessing(false)
SaveInspectionResolve(ok) ==
  \E c \in shiftCalls :
    /\ c.kind = "saveInspection"
    /\ shiftCalls' = shiftCalls \ {c}
    /\ IF ok
       THEN /\ vehicle_checkoffs' = vehicle_checkoffs \cup {today}
            /\ todayInspection' = today
       ELSE UNCHANGED <<vehicle_checkoffs, todayInspection>>
    /\ inspProcessing' = FALSE
    /\ UNCHANGED <<driver_shifts, today, currentShift, shiftLoading, processing,
                   clockAlert, shiftOther>>

\* the date changes
Midnight ==
  /\ today < MaxDay
  /\ today' = today + 1
  /\ UNCHANGED <<driver_shifts, vehicle_checkoffs, currentShift, todayInspection,
                 shiftLoading, processing, inspProcessing, shiftCalls,
                 clockAlert, shiftOther>>

\* the trip-details screen has not been opened
InitTripIdle ==
  /\ mounted = FALSE
  /\ mounts = 0
  /\ trip = NoTrip
  /\ tripPhase = "waiting"
  /\ loading = TRUE
  /\ actionLoading = FALSE
  /\ pickupCoords = "none"
  /\ destinationCoords = "none"
  /\ showDisclosureModal = FALSE
  /\ location = NoLocation
  /\ hasForegroundPermission = FALSE
  /\ hasBackgroundPermission = FALSE
  /\ needsDisclosure = FALSE
  /\ locationSubscription = 0
  /\ hasAcceptedDisclosure = FALSE
  /\ disclosureLoading = TRUE
  /\ ops = {}
  /\ fetches = EmptyBag
  /\ events = <<>>
  /\ notifs = EmptyBag
  /\ permInit = "done"
  /\ bgRequests = EmptyBag
  /\ acceptCalls = EmptyBag
  /\ watchReqs = EmptyBag
  /\ inserts = EmptyBag
  /\ alert = "none"
  /\ consoleLog = "none"
  /\ bgCalls = {}
  /\ driver_location = EmptyBag
  /\ watches = {}
  /\ channels = {}
  /\ store = TripRow("upcoming", NULL, D1, "assigned_waiting", NULL, Unset, Unset, Unset)
  /\ now = 1
  /\ storageFlag = TRUE
  /\ osFg = "granted"
  /\ osBg = "granted"
  /\ notifications = EmptyBag

\* The app has started: ShiftProvider is mounted and its effect has called
\* checkActiveShift.  The driver has no shift yet, or an open or a closed one
\* of day 1; an open one has that day's inspection.
InitShift ==
  /\ InitTripIdle
  /\ InitNotifyIdle
  /\ today = 1
  /\ driver_shifts \in {{}, {ShiftRow(1, 1, Unset)}, {ShiftRow(1, 1, 1)}}
  /\ vehicle_checkoffs \in {{}, {1}}
  /\ OpenShifts # {} => 1 \in vehicle_checkoffs
  /\ currentShift = 0
  /\ todayInspection = 0
  /\ shiftLoading = TRUE
  /\ processing = FALSE
  /\ inspProcessing = FALSE
  /\ shiftCalls = {[kind |-> "check", stage |-> "shift", id |-> 0, day |-> 0]}
  /\ clockAlert = "none"

\* The driver's day on the Clock tab and the inspection screen.
NextShift ==
  \/ \E ok \in BOOLEAN : CheckShift(ok)
  \/ \E ok \in BOOLEAN : CheckInspection(ok)
  \/ HandleClockIn
  \/ \E ok \in BOOLEAN : ClockInResolve(ok)
  \/ HandleClockOut
  \/ CancelClockOut
  \/ ConfirmClockOut
  \/ \E ok \in BOOLEAN : ClockOutResolve(ok)
  \/ HandleSubmit
  \/ \E ok \in BOOLEAN : SaveInspectionResolve(ok)
  \/ Midnight

SpecShift == InitShift /\ [][NextShift]_vars

\* clockOut called in every state of the provider: the shift table holds up
\* to MaxShifts rows of day 1, currentShift is null or one of the open rows, and
\* the Clock Out handler of a render with that currentShift is about to run.
InitClockOut ==
  /\ InitTripIdle
  /\ InitNotifyIdle
  /\ today = 1
  /\ \E f \in [1 .. MaxShifts -> {"none", "open", "closed"}] :
       driver_shifts =
         {ShiftRow(i, 1, IF f[i] = "open" THEN Unset ELSE 1) :
            i \in {j \in 1 .. MaxShifts : f[j] # "none"}}
  /\ vehicle_checkoffs = {1}
  /\ currentShift \in {0} \cup {r.id : r \in OpenShifts}
  /\ todayInspection = 1
  /\ shiftLoading = FALSE
  /\ processing = FALSE
  /\ inspProcessing = FALSE
  /\ shiftCalls = {[kind |-> "confirm", stage |-> "shown", id |-> currentShift,
                    day |-> 0]}
  /\ clockAlert = "Confirm Clock Out"

NextClockOut ==
  \/ ConfirmClockOut
  \/ \E ok \in BOOLEAN : ClockOutResolve(ok)
  \/ HandleClockOut
  \/ Midnight

SpecClockOut == InitClockOut /\ [][NextClockOut]_vars

\* ------------------------------------------------------- useNotifications
MaxChannels == 4   \* notification channels created

\* a channel made by supabase.channel(`driver-notifications-${user}`) whose
\* subscribe() was called
Channel(id, user) == [id |-> id, user |-> user, state |-> "joining"]

\* channel.unsubscribe()
UnsubscribeChannel(chans, id) ==
  {IF c.id = id THEN [c EXCEPT !.state = "closed"] ELSE c : c \in chans}

\* the channels that are subscribed or subscribing
Subscribed == {c \in rtChannels : c.state \in {"joining", "joined"}}

notifyOther == <<tripVars, notifications, shiftVars>>

\* the effect's cleanup: if (notificationSubscription.current) unsubscribe();
\* an effect that ran without a user returned no cleanup
Cleanup ==
  IF userId # NULL /\ notificationSubscription # 0
  THEN UnsubscribeChannel(rtChannels, notificationSubscription)
  ELSE rtChannels

\* the user logs in, logs out or is replaced: the cleanup of the effect of
\* the old userId runs, then the effect of the new one, which without a user
\* returns at once and otherwise calls setupNotificationMonitoring
UserChange(u) ==
  /\ u # userId
  /\ userId' = u
  /\ IF u = NULL
     THEN /\ rtChannels' = Cleanup
          /\ UNCHANGED notificationSubscription
     ELSE /\ Cardinality(rtChannels) < MaxChannels
          /\ LET id == Cardinality(rtChannels) + 1
             IN  /\ rtChannels' = Cleanup \cup {Channel(id, u)}
                 /\ notificationSubscription' = id
  /\ UNCHANGED <<reconnectTimers, notifyOther>>

\* the subscribe callback of a channel gets SUBSCRIBED
StatusSubscribed ==
  \E c \in rtChannels :
    /\ c.state = "joining"
    /\ rtChannels' = (rtChannels \ {c}) \cup {[c EXCEPT !.state = "joined"]}
    /\ UNCHANGED <<userId, notificationSubscription, reconnectTimers, notifyOther>>

\* the subscribe callback of a channel gets TIMED_OUT: the channel the ref
\* holds is unsubscribed and the timer is set with the
\* setupNotificationMonitoring of the render that made this channel
StatusTimedOut ==
  \E c \in rtChannels :
    /\ c.state = "joining"
    /\ BagCardinality(reconnectTimers) < MaxPending
    /\ rtChannels' =
         LET timedOut == (rtChannels \ {c}) \cup {[c EXCEPT !.state = "timed_out"]}
         IN  IF notificationSubscription # 0
             THEN UnsubscribeChannel(timedOut, notificationSubscription)
             ELSE timedOut
    /\ reconnectTimers' = reconnectTimers (+) SetToBag({c.user})
    /\ UNCHANGED <<userId, notificationSubscription, notifyOther>>

\* the 2-second timer fires: setupNotificationMonitoring of the render that
\* set it makes and subscribes a channel for that render's userId and stores
\* it in the ref
ReconnectTimer ==
  \E u \in BagToSet(reconnectTimers) :
    /\ Cardinality(rtChannels) < MaxChannels
    /\ reconnectTimers' = reconnectTimers (-) SetToBag({u})
    /\ LET id == Cardinality(rtChannels) + 1
       IN  /\ rtChannels' = rtChannels \cup {Channel(id, u)}
           /\ notificationSubscription' = id
    /\ UNCHANGED <<userId, notifyOther>>

\* The app has started and nobody is logged in.
InitNotify ==
  /\ InitTripIdle
  /\ InitShiftIdle
  /\ userId = NULL
  /\ notificationSubscription = 0
  /\ rtChannels = {}
  /\ reconnectTimers = EmptyBag

\* Drivers log in and out while the notification channel connects.
NextNotify ==
  \/ \E u \in {D1, D2, NULL} : UserChange(u)
  \/ StatusSubscribed
  \/ StatusTimedOut
  \/ ReconnectTimer

SpecNotify == InitNotify /\ [][NextNotify]_vars

\* ----------------------------------------------------------- properties
\* steps of a transition write o, recognised in a step of the system
Succeeds(o) ==          \* the database applied it
  o \in ops /\ o.stage = "sent" /\ [o EXCEPT !.stage = "committed"] \in ops'
Fails(o) ==             \* it resolved with an error
  /\ o \in ops /\ o.stage = "sent"
  /\ o \notin ops' /\ [o EXCEPT !.stage = "committed"] \notin ops'
Finishes(o) ==          \* its handler ran to the end after the successful write
  o \in ops /\ o.stage = "committed" /\ ops' = ops \ {o}

\* C1: the stored trip_phase only moves forward through waiting,
\* en_route_to_pickup, arrived_at_pickup, en_route_to_destination, completed:
\* no step writes a phase earlier than the stored one
PhaseForwardOnly ==
  [][PhaseRank(store'.trip_phase) >= PhaseRank(store.trip_phase)]_vars

\* C2: every call of the OS background-location request was made with
\* hasAcceptedDisclosure true
BackgroundRequestAfterDisclosure == \A c \in bgCalls : c.accepted

\* tracking began before the stored acceptance was read, so the disclosure
\* was asked for; then the acceptance arrived and the OS request was made
BackgroundRequested ==
  /\ bgCalls # {}
  /\ bgRequests # EmptyBag
  /\ needsDisclosure /\ hasAcceptedDisclosure /\ ~showDisclosureModal

\* C3: once the trip is completed no driver_location row of it carries a
\* timestamp after completed_at
NoSampleAfterCompletion ==
  store.status = "completed" =>
    \A r \in BagToSet(driver_location) : r.timestamp <= store.completed_at

\* C4: complete is single-flight: at most one complete write of the trip is
\* in flight at any time
CompleteSingleFlight ==
  Cardinality({o \in ops : o.kind = "complete" /\ o.stage = "sent"}) <= 1

\* C5: while the screen's trip has driver_id set, no accept update is issued
\* (so a repeated accept writes nothing)
AcceptIdempotent ==
  [][trip.driver_id # NULL =>
       \A o \in ops' \ ops : ~(o.kind = "accept" /\ o.stage = "sent")]_vars

\* the first accept succeeded and the screen shows driver_id set, idle
AcceptObserved ==
  /\ Shown /\ DetailsView /\ ~actionLoading
  /\ trip.driver_id = D1 /\ trip.assigned_driver_id = D1
  /\ store.driver_id = D1 /\ store.driver_acceptance_status = "accepted"
  /\ ops = {}

\* C6: an accepted trip's driver is the driver it is assigned to:
\* stored driver_id = stored assigned_driver_id
AcceptRespectsAssignment ==
  store.driver_id # NULL => store.driver_id = store.assigned_driver_id

\* C7: a successful accept sets driver_id = D1 and driver_acceptance_status =
\* accepted and changes nothing else of the row, and its handler sends exactly
\* one notification, 'driver_accepted'; no other step sends one
AcceptEffect ==
  [][/\ \A o \in ops : (o.kind = "accept" /\ Succeeds(o)) =>
          /\ store' = [store EXCEPT !.driver_id = D1,
                                    !.driver_acceptance_status = "accepted"]
          /\ store'.status = store.status
          /\ store'.trip_phase = store.trip_phase
          /\ notifs' = notifs
     /\ \A o \in ops : (o.kind = "accept" /\ Finishes(o)) =>
          /\ notifs' = notifs (+) SetToBag({"driver_accepted"})
          /\ store' = store
     /\ CopiesIn("driver_accepted", notifs') > CopiesIn("driver_accepted", notifs)
          => \E o \in ops : o.kind = "accept" /\ Finishes(o)]_vars

\* the waiting trip was accepted by D1 and the one notification is on its way
AcceptedAndNotified ==
  /\ store.assigned_driver_id = D1
  /\ store.driver_id = D1
  /\ store.driver_acceptance_status = "accepted"
  /\ store.status = "upcoming" /\ store.trip_phase = NULL
  /\ notifs = SetToBag({"driver_accepted"})
  /\ alert = "Success"

\* C8: a set pickup_arrival_time, ride_start_time or completed_at is never
\* written again
StampsWrittenOnce ==
  [][/\ store.pickup_arrival_time # Unset
          => store'.pickup_arrival_time = store.pickup_arrival_time
     /\ store.ride_start_time # Unset
          => store'.ride_start_time = store.ride_start_time
     /\ store.completed_at # Unset
          => store'.completed_at = store.completed_at]_vars

\* C9: a failed write shows the error dialog, leaves the local trip and phase
\* (and the stored row) as they were, sends no notification and issues no
\* further write
WriteFailureLeavesState ==
  [][\A o \in ops : Fails(o) =>
       /\ alert' = "Error"
       /\ trip' = trip /\ tripPhase' = tripPhase
       /\ store' = store
       /\ notifs' = notifs
       /\ fetches' = fetches
       /\ ops' = ops \ {o}]_vars

\* a start failed: the error is shown, the trip is still accepted and not
\* started, locally and in the store, and the button is released
StartFailed ==
  /\ alert = "Error"
  /\ Shown /\ ~actionLoading /\ ops = {}
  /\ trip.driver_acceptance_status = "accepted" /\ tripPhase = "waiting"
  /\ store.status = "upcoming" /\ store.driver_acceptance_status = "accepted"
  /\ fetches = EmptyBag /\ notifs = EmptyBag

\* C10: a notification is sent only by the handler of a write that succeeded,
\* which releases the busy flag in the same step; the notification's outcome
\* changes neither the stored row, nor the local trip and phase, nor the busy
\* flag, nor the writes in flight
NotificationBestEffort ==
  [][/\ \A a \in BagToSet(notifs') :
          CopiesIn(a, notifs') > CopiesIn(a, notifs) =>
            /\ \E o \in ops : Finishes(o) /\ NotifyAction(o.kind) = a
            /\ store' = store
            /\ ~actionLoading'
     /\ BagCardinality(notifs') < BagCardinality(notifs) =>
          /\ store' = store
          /\ trip' = trip /\ tripPhase' = tripPhase
          /\ actionLoading' = actionLoading
          /\ ops' = ops]_vars

\* the notification of the start failed, and the trip is started, in the
\* store and on the screen, with the button released
NotificationFailedAfterStart ==
  /\ consoleLog = "notify_failed"
  /\ notifs = EmptyBag
  /\ store.status = "in_progress" /\ store.trip_phase = "en_route_to_pickup"
  /\ Shown /\ tripPhase = "en_route_to_pickup" /\ ~actionLoading

\* C11: every call of the OS background-location request was made with the
\* foreground permission held, and while one is pending the OS has the
\* foreground permission granted
BackgroundRequestAfterForeground ==
  /\ \A c \in bgCalls : c.fg
  /\ bgRequests # EmptyBag => osFg = "granted"

\* the OS was asked for the background permission, with the foreground
\* permission held, and refused it
BackgroundRefused ==
  /\ bgCalls # {}
  /\ mounted /\ hasForegroundPermission /\ ~hasBackgroundPermission
  /\ osBg = "denied" /\ alert = "Background Location Required"

\* the dependencies of the background permission effect
BackgroundDeps ==
  <<isTracking, hasForegroundPermission, hasBackgroundPermission,
    hasAcceptedDisclosure>>

\* C12: whenever the background permission is asked for without a recorded
\* acceptance (the effect runs with tracking on, foreground held, background
\* missing), needsDisclosure is set, the disclosure is on the screen once the
\* stored flag has been read, and the OS is not asked; and needsDisclosure is
\* cleared only with the acceptance recorded
DisclosureOnEveryRequest ==
  [][/\ (/\ mounted'
         /\ BackgroundDeps' # BackgroundDeps
         /\ isTracking' /\ hasForegroundPermission'
         /\ ~hasBackgroundPermission' /\ ~hasAcceptedDisclosure')
          => /\ needsDisclosure'
             /\ bgRequests' = bgRequests
             /\ ~disclosureLoading' => showDisclosureModal'
     /\ (mounted' /\ needsDisclosure /\ ~needsDisclosure')
          => hasAcceptedDisclosure]_vars

\* C13: without the foreground permission the trip flow is not blocked: once
\* permission initialisation has finished and the in-progress trip is shown
\* with its addresses geocoded, the phase buttons (Arrived / Start Ride /
\* Complete Trip) are on the screen
FlowNotBlockedByDenial ==
  (/\ permInit = "done" /\ ~hasForegroundPermission
   /\ Shown /\ isInProgress
   /\ pickupCoords = "set" /\ destinationCoords = "set")
    => ActiveView

\* C14: the mounted screen has exactly one subscribed channel, its own, and
\* when no screen is mounted no channel of the screen remains subscribed
SubscriptionFollowsMount ==
  channels = IF mounted THEN {mounts} ELSE {}

\* the screen was left and opened again: the second instance is subscribed,
\* the first no longer, and the trip is loaded
ReopenedSubscribed ==
  /\ mounted /\ mounts = 2
  /\ channels = {2}
  /\ trip # NoTrip

\* C15: every position watch registered with the OS is the one held by the
\* tracking effect of the mounted screen while that effect is on: after the
\* effect's cleanup none of its watches remains
WatchRemovedByCleanup ==
  \A w \in watches :
    /\ Live(w.inst)
    /\ TrackingEffectOn(hasForegroundPermission, isTracking)
    /\ locationSubscription = w.id

SampleStoredOnce ==
  \A r \in BagToSet(driver_location) : CopiesIn(r, driver_location) = 1

\* C18: when the screen folds a realtime event in, the local trip afterwards
\* has the keys of the local trip and of the event, every key of the event
\* with the event's value and every other key (the enrichment among them)
\* with its local value; and the local phase is the event's trip_phase when
\* that is not null and is unchanged otherwise.
EventFoldIsShallowMerge ==
  [][(mounted' /\ events # <<>> /\ events' = Tail(events))
       => LET e == Head(events)
          IN  /\ DOMAIN trip' = DOMAIN trip \cup DOMAIN e
              /\ \A k \in DOMAIN trip' :
                   trip'[k] = IF k \in DOMAIN e THEN e[k] ELSE trip[k]
              /\ tripPhase' = IF e.trip_phase # NULL THEN e.trip_phase
                                                     ELSE tripPhase]_vars

\* the event of the driver's own start was folded into the enriched trip,
\* before startTrip went on to fetch
StartEventFolded ==
  /\ mounted /\ events = <<>> /\ fetches = EmptyBag
  /\ \E o \in ops : o.kind = "start" /\ o.stage = "committed"
  /\ trip.status = "in_progress" /\ tripPhase = "en_route_to_pickup"
  /\ "profiles" \in DOMAIN trip /\ trip.profiles = "client"
  /\ "driver" \in DOMAIN trip /\ trip.driver = D1

\* C19: the row stored for a position has the position's latitude and
\* longitude, null for a heading or speed the position does not have and the
\* position's value for one it has (0 included), and the position's
\* timestamp, to the tick.
StoredAsSampled ==
  [][\A l \in BagToSet(inserts), r \in BagToSet(driver_location') :
       (/\ inserts' = inserts (-) SetToBag({l})
        /\ driver_location' = driver_location (+) SetToBag({r}))
         => LET absent(a) == a \in {Undefined, JsNull}
            IN  /\ r.latitude = l.coords.latitude
                /\ r.longitude = l.coords.longitude
                /\ r.heading = IF absent(l.coords.heading) THEN JsNull
                                                           ELSE l.coords.heading
                /\ r.speed = IF absent(l.coords.speed) THEN JsNull
                                                       ELSE l.coords.speed
                /\ r.timestamp * TicksPerMs = l.timestamp * TicksPerMs + l.frac]_vars

\* C20: no insert is called and no row is stored for a position without a
\* coords object or without a numeric latitude and longitude, and the
\* driver is never shown the error screen
MalformedSampleDropped ==
  /\ \A l \in BagToSet(inserts) :
       /\ l.coords.t = "object"
       /\ l.coords.latitude.t = "number" /\ l.coords.longitude.t = "number"
  /\ \A r \in BagToSet(driver_location) :
       r.latitude.t = "number" /\ r.longitude.t = "number"
  /\ alert # "Something Went Wrong"

\* C21: every update of the trip that makes driver_acceptance_status
\* 'accepted' when it was anything else before, NULL included, adds one
\* 'driver_accepted' notification for each dispatcher
AcceptanceNotifiesDispatchers ==
  [][(/\ store.driver_acceptance_status # "accepted"
      /\ store'.driver_acceptance_status = "accepted")
       => \A d \in Dispatchers :
            CopiesIn(Notification(d, "driver_accepted"), notifications')
              = CopiesIn(Notification(d, "driver_accepted"), notifications) + 1]_vars

\* C22: the screen holds the disclosure for accepted only when the flag is
\* in the persistent storage, and a mount that finishes reading the storage
\* while the flag is stored holds it for accepted
DisclosureRecordedWhenPersisted ==
  [][/\ (mounted' /\ hasAcceptedDisclosure') => storageFlag'
     /\ (mounted' /\ disclosureLoading /\ ~disclosureLoading' /\ storageFlag)
          => hasAcceptedDisclosure']_vars

\* C23: arrivedAtPickup, startRide and completeTrip are started only from the
\* active view, and only in the local phase en_route_to_pickup,
\* arrived_at_pickup and en_route_to_destination respectively (so that no
\* phase lets two of them start)
PhaseButtonsFollowPhase ==
  [][\A o \in ops' \ ops :
       (o.stage = "sent" /\ o.kind \in {"arrived", "ride", "complete"})
         => /\ ActiveView
            /\ tripPhase = CASE o.kind = "arrived" -> "en_route_to_pickup"
                              [] o.kind = "ride" -> "arrived_at_pickup"
                              [] o.kind = "complete" -> "en_route_to_destination"]_vars

\* the driver pressed Start Ride after the arrival was stored
StartRidePressed ==
  /\ mounted /\ tripPhase = "arrived_at_pickup" /\ actionLoading
  /\ \E o \in ops : o.kind = "ride" /\ o.stage = "sent"
  /\ store.pickup_arrival_time # Unset

\* C24: a transition is started only when no other transition's write is in
\* flight, and raises the busy flag; the flag is up while a write of the shown
\* screen is in flight; and when the write has settled, with or without an
\* error, and its handler has run to the end, the flag of the shown screen is
\* down
BusyFlagCoversWrite ==
  [][/\ \A o \in ops' \ ops : o.stage = "sent" => ops = {} /\ actionLoading'
     /\ \A o \in ops : Live(o.inst) => actionLoading
     /\ \A o \in ops :
          (/\ \A p \in ops' : p.kind # o.kind \/ p.inst # o.inst
           /\ mounted' /\ o.inst = mounts')
            => ~actionLoading']_vars

\* C25: no transition is started on a screen whose trip is completed or
\* cancelled, and a stored status of completed or cancelled is never changed
TerminalStatusStays ==
  [][/\ \A o \in ops' \ ops :
          o.stage = "sent" => trip.status \notin {"completed", "cancelled"}
     /\ store.status \in {"completed", "cancelled"}
          => store'.status = store.status]_vars

\* C26: when no fetch response, no realtime event and no write of the screen
\* is outstanding, the screen's trip status and phase are those of the stored
\* trip
ViewConvergesToStore ==
  (/\ mounted /\ trip # NoTrip
   /\ fetches = EmptyBag /\ events = <<>> /\ ops = {})
    => /\ trip.status = store.status
       /\ store.trip_phase # NULL => tripPhase = store.trip_phase

\* C27: the driver never has more than one shift row with clock_out unset
AtMostOneOpenShift == Cardinality(OpenShifts) <= 1

\* C28: a Clock Out handler whose render has no current shift shows 'No
\* active shift' and sends no update; an update that succeeds sets clock_out
\* of the current shift's row only and leaves currentShift null; an update
\* that fails is shown as an error and leaves the rows and currentShift as
\* they were
ClockOutContract ==
  [][/\ \A c \in shiftCalls \ shiftCalls' :
          c.kind = "confirm"
            => IF c.id = 0
               THEN /\ clockAlert' = "Error: No active shift"
                    /\ \A d \in shiftCalls' : d.kind # "clockOut"
                    /\ UNCHANGED <<driver_shifts, currentShift>>
               ELSE /\ \E d \in shiftCalls' : d.kind = "clockOut" /\ d.id = c.id
                    /\ UNCHANGED <<driver_shifts, currentShift, clockAlert>>
     /\ \A c \in shiftCalls \ shiftCalls' :
          c.kind = "clockOut"
            => \/ /\ c.id = currentShift
                  /\ \E r \in driver_shifts :
                       /\ r.id = c.id
                       /\ driver_shifts' = (driver_shifts \ {r})
                            \cup {[r EXCEPT !.clock_out = c.day]}
                  /\ currentShift' = 0
                  /\ clockAlert' = "Success: clocked out"
               \/ /\ UNCHANGED <<driver_shifts, currentShift>>
                  /\ clockAlert' = "Error: clock out"
     /\ driver_shifts' # driver_shifts
          => \E c \in shiftCalls \ shiftCalls' : c.kind = "clockOut"]_vars

\* the shift was closed on day 2 and the driver is clocked out
ClockedOut ==
  /\ clockAlert = "Success: clocked out"
  /\ ~isClockedIn
  /\ ~processing
  /\ \E r \in driver_shifts : r.clock_out = 2

\* C29: clockIn is called only while inspectionRequired is false, and every
\* shift row that is stored has an inspection stored for the day of its
\* clock_in
InspectedBeforeShift ==
  [][/\ \A c \in shiftCalls' \ shiftCalls :
          c.kind = "clockIn" => ~inspectionRequired
     /\ \A r \in driver_shifts' :
          (\A q \in driver_shifts : q.id # r.id)
            => r.clock_in \in vehicle_checkoffs']_vars

\* C30: every notification channel that is subscribed or subscribing belongs
\* to the user who is logged in: after the cleanup for a user, none of that
\* user's channels is left
NoChannelAfterCleanup == \A c \in Subscribed : c.user = userId

====
